---- MODULE Spec2Model ----
(***************************************************************************)
(* Model of scripts/organize_assets.py: the batch job that reorganises a   *)
(* character sprite tree into a 4-direction layout (south, west, north,    *)
(* east), with per-direction fallback chains, east derived by mirroring,   *)
(* and per-character and master manifests.                                 *)
(*                                                                         *)
(* The filesystem is modelled structurally.  A directory entry is a record *)
(* [isdir, files] where files maps file names to image contents; a file    *)
(* name is a record [stem, ext]; an image is a row of pixels, so that a    *)
(* horizontal flip is the reversal of the row.                             *)
(***************************************************************************)
EXTENDS Integers, Sequences, FiniteSets, TLC

VARIABLES src, out, manifest, all_manifests, pc, ci, si, prev, log, find

vars == <<src, out, manifest, all_manifests, pc, ci, si, prev, log, find>>

-----------------------------------------------------------------------------
(* Bounds of the model *)

MaxFrames == 2

-----------------------------------------------------------------------------
(* Configuration tables *)

ANIM_MAP_DEFAULT ==
  << <<"idle", "breathing-idle">>,
     <<"attack", "cross-punch">>,
     <<"hit", "taking-punch">>,
     <<"death", "falling-back-death">>,
     <<"run", "running-6-frames">>,
     <<"defense", "crouching">>,
     <<"escape", "running-slide">>,
     <<"idle-alt", "fight-stance-idle-8-frames">> >>

ANIM_MAP_ARCHER ==
  [i \in 1..(Len(ANIM_MAP_DEFAULT) + 1) |->
     IF i > Len(ANIM_MAP_DEFAULT) THEN <<"attack-melee", "cross-punch">>
     ELSE IF ANIM_MAP_DEFAULT[i][1] = "attack" THEN <<"attack", "fireball">>
     ELSE ANIM_MAP_DEFAULT[i]]

CHARACTERS ==
  << <<"armored-warrior", ANIM_MAP_DEFAULT>>,
     <<"archer", ANIM_MAP_ARCHER>>,
     <<"knight", ANIM_MAP_DEFAULT>> >>

FALLBACKS ==
  [south |-> <<"south", "south-west", "west">>,
   west  |-> <<"west", "south-west">>,
   north |-> <<"north", "north-west", "north-east", "west">>]

PrimaryDirections == <<"south", "west", "north">>

CharNames == {CHARACTERS[i][1] : i \in 1..Len(CHARACTERS)}

AnimMapOf(char_name) ==
  CHARACTERS[CHOOSE i \in 1..Len(CHARACTERS) : CHARACTERS[i][1] = char_name][2]

-----------------------------------------------------------------------------
(* Filesystem values *)

NoFiles == <<>>

NoEntry == [isdir |-> FALSE, files |-> NoFiles]

EmptyDir == [isdir |-> TRUE, files |-> NoFiles]

Png(stem) == [stem |-> stem, ext |-> "png"]

PngFiles(entry) == {f \in DOMAIN entry.files : f.ext = "png"}

HasPng(entry) == entry.isdir /\ PngFiles(entry) # {}

-----------------------------------------------------------------------------
(* find_source_dir *)

RECURSIVE FirstUsable(_, _, _)
FirstUsable(anim_base, chain, i) ==
  IF i > Len(chain) THEN 0
  ELSE IF HasPng(anim_base[chain[i]]) THEN i
  ELSE FirstUsable(anim_base, chain, i + 1)

find_source_dir_mirror_any(anim_base, target_dir) ==
  LET chain == FALLBACKS[target_dir]
      i == FirstUsable(anim_base, chain, 1)
  IN  IF i # 0 THEN [path |-> chain[i], mirror |-> FALSE]
      ELSE IF HasPng(anim_base["east"])
           THEN [path |-> "east", mirror |-> TRUE]
      ELSE [path |-> "None", mirror |-> FALSE]

find_source_dir(anim_base, target_dir) ==
  LET chain == FALLBACKS[target_dir]
      i == FirstUsable(anim_base, chain, 1)
  IN  IF i # 0 THEN [path |-> chain[i], mirror |-> FALSE]
      ELSE IF target_dir = "west" /\ HasPng(anim_base["east"])
           THEN [path |-> "east", mirror |-> TRUE]
      ELSE [path |-> "None", mirror |-> FALSE]

-----------------------------------------------------------------------------
(* mirror_image, copy_or_mirror_frames *)

mirror_image_noop(img) == img

mirror_image(img) == [i \in 1..Len(img) |-> img[Len(img) + 1 - i]]

copy_or_mirror_frames_all_files(src_dir, dst_files, mirror) ==
  LET frames == DOMAIN src_dir.files
  IN  [files |-> [f \in (DOMAIN dst_files) \cup frames |->
                    IF f \in frames
                    THEN IF mirror THEN mirror_image(src_dir.files[f])
                         ELSE src_dir.files[f]
                    ELSE dst_files[f]],
       count |-> Cardinality(frames)]

copy_or_mirror_frames(src_dir, dst_files, mirror) ==
  LET frames == PngFiles(src_dir)
  IN  [files |-> [f \in (DOMAIN dst_files) \cup frames |->
                    IF f \in frames
                    THEN IF mirror THEN mirror_image(src_dir.files[f])
                         ELSE src_dir.files[f]
                    ELSE dst_files[f]],
       count |-> Cardinality(frames)]

-----------------------------------------------------------------------------
(* Output tree values and the write log *)

NoManifest == [written |-> FALSE, body |-> <<>>]

EmptyCharOut ==
  [exists |-> FALSE, rotations |-> NoEntry, animations |-> <<>>,
   manifest |-> NoManifest]

NoOutput ==
  [exists |-> FALSE, chars |-> [c \in CharNames |-> EmptyCharOut],
   master |-> NoManifest]

Event(kind, char_name, game_state, direction) ==
  [kind |-> kind, char |-> char_name, state |-> game_state, dir |-> direction]

SeqRange(s) == {s[i] : i \in 1..Len(s)}

-----------------------------------------------------------------------------
(* process_rotation *)

RECURSIVE FirstExisting(_, _, _)
FirstExisting(rot_src, chain, i) ==
  IF i > Len(chain) THEN 0
  ELSE IF Png(chain[i]) \in DOMAIN rot_src.files THEN i
  ELSE FirstExisting(rot_src, chain, i + 1)

RotationSource(rot_src, direction) ==
  IF Png(direction) \in DOMAIN rot_src.files THEN direction
  ELSE LET i == FirstExisting(rot_src, FALLBACKS[direction], 1)
       IN  IF i # 0 THEN FALLBACKS[direction][i] ELSE "None"

RotationDir_primary_only(char_src) == char_src.extracted_rotations

RotationDir(char_src) ==
  IF char_src.extracted_rotations.isdir THEN char_src.extracted_rotations
  ELSE char_src.rotations

RotationManifest(char_name) ==
  [directions |-> <<"south", "west", "north", "east">>,
   path |-> <<"characters", char_name, "rotations">>]

process_rotation(char_name, char_src, char_out, mf) ==
  LET rot_src == RotationDir(char_src)
      copied == {d \in SeqRange(PrimaryDirections) :
                   RotationSource(rot_src, d) # "None"}
      old == char_out.rotations.files
      after_copy ==
        [f \in (DOMAIN old) \cup {Png(d) : d \in copied} |->
           IF f \in {Png(d) : d \in copied}
           THEN rot_src.files[Png(RotationSource(rot_src, f.stem))]
           ELSE old[f]]
      west_exists == Png("west") \in DOMAIN after_copy
      after_east ==
        IF west_exists
        THEN [f \in (DOMAIN after_copy) \cup {Png("east")} |->
                IF f = Png("east") THEN mirror_image(after_copy[Png("west")])
                ELSE after_copy[f]]
        ELSE after_copy
      written == SelectSeq(PrimaryDirections, LAMBDA d : d \in copied)
      events == [i \in 1..Len(written) |->
                   Event("rotation", char_name, "-", written[i])]
                \o (IF west_exists
                    THEN <<Event("rotation", char_name, "-", "east")>>
                    ELSE <<>>)
  IN  IF ~rot_src.isdir
      THEN [out |-> char_out, manifest |-> mf, log |-> <<>>]
      ELSE [out |-> [char_out EXCEPT
                       !.exists = TRUE,
                       !.rotations = [isdir |-> TRUE, files |-> after_east]],
            manifest |-> [rotations |-> RotationManifest(char_name)] @@ mf,
            log |-> events]

-----------------------------------------------------------------------------
(* process_animations *)

DstFiles(animations, game_state, direction) ==
  IF <<game_state, direction>> \in DOMAIN animations
  THEN animations[<<game_state, direction>>]
  ELSE NoFiles

SourceName(found) ==
  IF found.mirror THEN <<"mirror", found.path>> ELSE <<found.path>>

AnimPath(char_name, game_state, direction) ==
  <<"characters", char_name, "animations", game_state, direction>>

EastMirrorFlag_always(w_mirrored) == TRUE

EastMirrorFlag(w_mirrored) == IF w_mirrored THEN FALSE ELSE TRUE

(* One iteration of the loop over anim_map.items(), for a state whose     *)
(* source folder exists: the directions written, the frames written per   *)
(* direction, and the anim_info record.                                   *)
ProcessState(char_name, game_state, pixellab_name, anim_src, animations) ==
  LET found == [d \in SeqRange(PrimaryDirections) |->
                  find_source_dir(anim_src.sub, d)]
      resolved == {d \in SeqRange(PrimaryDirections) : found[d].path # "None"}
      w_resolved == "west" \in resolved
      dirs == resolved \cup (IF w_resolved THEN {"east"} ELSE {})
      copy == [d \in dirs |->
                 IF d = "east"
                 THEN copy_or_mirror_frames(
                        anim_src.sub[found["west"].path],
                        DstFiles(animations, game_state, "east"),
                        EastMirrorFlag(found["west"].mirror))
                 ELSE copy_or_mirror_frames(
                        anim_src.sub[found[d].path],
                        DstFiles(animations, game_state, d),
                        found[d].mirror)]
  IN  [dirs |-> dirs,
       files |-> [d \in dirs |-> copy[d].files],
       info |-> [source |-> pixellab_name,
                 directions |->
                   [d \in dirs |->
                      [source |-> IF d = "east" THEN <<"mirror", "west">>
                                  ELSE SourceName(found[d]),
                       frames |-> copy[d].count,
                       path |-> AnimPath(char_name, game_state, d)]]]]

RECURSIVE TotalFrames(_, _, _, _)
TotalFrames(anim_map, animations, d, i) ==
  IF i > Len(anim_map) THEN 0
  ELSE LET gs == anim_map[i][1]
       IN  (IF gs \in DOMAIN animations /\ d \in DOMAIN animations[gs].directions
            THEN animations[gs].directions[d].frames
            ELSE 0) + TotalFrames(anim_map, animations, d, i + 1)

StateEvents(char_name, game_state, dirs) ==
  LET written == SelectSeq(<<"south", "west", "north", "east">>,
                           LAMBDA d : d \in dirs)
  IN  [k \in 1..Len(written) |->
         Event("frames", char_name, game_state, written[k])]

SkipState_never(anim_src) == FALSE

SkipState(anim_src) == ~anim_src.isdir

-----------------------------------------------------------------------------
(* Source trees: the inputs the run reads under SRC_CHARS.  A character    *)
(* tree is [extracted_rotations, rotations, animations]; an animation      *)
(* folder is [isdir, sub] with one entry per direction name.               *)

AllDirNames ==
  <<"south", "south-west", "west", "north", "north-west", "north-east", "east">>

DirNameSet == SeqRange(AllDirNames)

DirIdx(name) == CHOOSE i \in 1..Len(AllDirNames) : AllDirNames[i] = name

PixNames ==
  {ANIM_MAP_DEFAULT[i][2] : i \in 1..Len(ANIM_MAP_DEFAULT)}
  \cup {ANIM_MAP_ARCHER[i][2] : i \in 1..Len(ANIM_MAP_ARCHER)}

(* Frame k of the directory called name: odd frames are asymmetric rows,   *)
(* even frames are symmetric ones.                                         *)
FrameImage(name, k) ==
  <<DirIdx(name) * 10 + k, IF k % 2 = 0 THEN DirIdx(name) * 10 + k ELSE 0>>

NumFramesOf(name) == 1 + (DirIdx(name) % MaxFrames)

TextFile == [stem |-> 1, ext |-> "txt"]

FrameDirOf(name, kind) ==
  CASE kind = "absent" -> NoEntry
    [] kind = "empty"  -> EmptyDir
    [] kind = "txt"    -> [isdir |-> TRUE,
                           files |-> [f \in {TextFile} |-> <<0, 0>>]]
    [] kind = "png"    ->
         [isdir |-> TRUE,
          files |-> [f \in {Png(k) : k \in 1..NumFramesOf(name)} \cup {TextFile} |->
                       IF f.ext = "png" THEN FrameImage(name, f.stem)
                       ELSE <<0, 0>>]]

FolderOf(kinds) ==
  [isdir |-> TRUE, sub |-> [n \in DirNameSet |-> FrameDirOf(n, kinds[n])]]

NoFolder == [isdir |-> FALSE, sub |-> [n \in DirNameSet |-> NoEntry]]

RotImage(base, name) == <<base + DirIdx(name), 0>>

RotDirOf(base, names) ==
  [isdir |-> TRUE,
   files |-> [f \in {Png(n) : n \in names} |-> RotImage(base, f.stem)]]

CharTree(primary, alternate, animations) ==
  [extracted_rotations |-> primary, rotations |-> alternate,
   animations |-> animations]

AllKind(kind) == [n \in DirNameSet |-> kind]

DefaultFolder == FolderOf(AllKind("png"))

DefaultTree ==
  CharTree(RotDirOf(100, DirNameSet), NoEntry, [p \in PixNames |-> DefaultFolder])

(* Coarse character profiles, combined freely over the three characters. *)
Profiles ==
  << \* nothing at all under the character root
     CharTree(NoEntry, NoEntry, [p \in PixNames |-> NoFolder]),
     \* complete source
     DefaultTree,
     \* rotations only at the alternate location; folders without directions
     CharTree(NoEntry, RotDirOf(200, {"south-west", "north-east"}),
              [p \in PixNames |-> FolderOf(AllKind("absent"))]),
     \* no rotations; a single folder holding only east
     CharTree(NoEntry, NoEntry,
              [p \in PixNames |->
                 IF p = "breathing-idle"
                 THEN FolderOf([n \in DirNameSet |->
                                  IF n = "east" THEN "png" ELSE "absent"])
                 ELSE NoFolder]),
     \* no rotations; folders exist but every direction directory is empty
     CharTree(NoEntry, NoEntry, [p \in PixNames |-> FolderOf(AllKind("empty"))]),
     \* empty rotations directory; fireball missing; diagonals only
     CharTree(EmptyDir, RotDirOf(200, DirNameSet),
              [p \in PixNames |->
                 IF p = "fireball" THEN NoFolder
                 ELSE FolderOf([n \in DirNameSet |->
                                  IF n \in {"south-west", "north-east"}
                                  THEN "png" ELSE "txt"])]) >>

StaleOutput ==
  [exists |-> TRUE,
   chars |-> [c \in CharNames |->
                IF c = "archer" THEN EmptyCharOut
                ELSE [exists |-> TRUE,
                      rotations |-> RotDirOf(900, {"west", "east", "north-west"}),
                      animations |->
                        [p \in {<<"idle", "south">>, <<"retired", "east">>} |->
                           [f \in {Png(9)} |-> <<9, 0>>]],
                      manifest |-> [written |-> TRUE,
                                    body |-> [character |-> "retired"]]]],
   master |-> [written |-> TRUE,
               body |-> [c \in {"retired"} |-> [character |-> "retired"]]]]

VariedPix == {"breathing-idle", "cross-punch", "fireball", "crouching"}

FocusKinds == {"absent", "png"}

(* A small source: the three rotation files and one complete folder. *)
SmallTree ==
  CharTree(RotDirOf(100, {"south", "west", "north"}), NoEntry,
           [p \in PixNames |->
              IF p = "breathing-idle" THEN DefaultFolder ELSE NoFolder])

(* One character's animation folders vary over every set of usable       *)
(* direction directories; the others have the small source.              *)
AnimationFocus ==
  {[c \in CharNames |->
      IF c = focus
      THEN CharTree(RotDirOf(100, DirNameSet), NoEntry,
                    [p \in PixNames |->
                       IF p \in VariedPix THEN FolderOf(kinds)
                       ELSE IF p = "taking-punch" THEN NoFolder
                       ELSE DefaultFolder])
      ELSE SmallTree] :
     focus \in CharNames, kinds \in [DirNameSet -> FocusKinds]}

RotationDirs(base) == {RotDirOf(base, names) : names \in SUBSET DirNameSet}

(* The two rotation locations of one character: every set of files at the *)
(* primary location beside a complete alternate one, and every set of     *)
(* files at the alternate location when the primary one is absent.        *)
RotationPairs ==
  {<<primary, RotDirOf(200, DirNameSet)>> : primary \in RotationDirs(100)}
  \cup {<<NoEntry, alternate>> : alternate \in {NoEntry} \cup RotationDirs(200)}

RotationFocus ==
  {[c \in CharNames |->
      IF c = focus
      THEN CharTree(pair[1], pair[2], SmallTree.animations)
      ELSE SmallTree] :
     focus \in CharNames, pair \in RotationPairs}

ProfileTrees ==
  {[c \in CharNames |-> Profiles[choice[c]]] :
     choice \in [CharNames -> 1..Len(Profiles)]}

-----------------------------------------------------------------------------
(* The pipeline: main() *)

NotFound == [path |-> "None", mirror |-> FALSE]

IdleFind ==
  [base |-> NoFolder.sub, target |-> "south", called |-> FALSE, result |-> NotFound]

NoSnapshot == [ran |-> FALSE, out |-> NoOutput, all_manifests |-> <<>>]

Init ==
  /\ \/ src \in ProfileTrees /\ out \in {NoOutput, StaleOutput}
     \/ src \in AnimationFocus /\ out = NoOutput
     \/ src \in RotationFocus /\ out = NoOutput
  /\ manifest = <<>>
  /\ all_manifests = <<>>
  /\ pc = "start"
  /\ ci = 1
  /\ si = 1
  /\ prev = NoSnapshot
  /\ log = <<>>
  /\ find = IdleFind

char_name == CHARACTERS[ci][1]

anim_map == CHARACTERS[ci][2]

rmtree_keeps(tree) == tree

rmtree(tree) == NoOutput

(* Lines 234-238: wipe and recreate OUT_DIR, start with no manifests. *)
CleanOutput ==
  /\ pc = "start"
  /\ out' = [(IF out.exists THEN rmtree(out) ELSE out) EXCEPT !.exists = TRUE]
  /\ all_manifests' = <<>>
  /\ manifest' = <<>>
  /\ ci' = 1
  /\ log' = Append(log, Event("clean", "-", "-", "-"))
  /\ pc' = "rotation"
  /\ UNCHANGED <<src, si, prev, find>>

(* Lines 245-246 and 153-155: a fresh manifest, process_rotation, and the *)
(* empty animations map process_animations starts from.                   *)
ProcessRotation ==
  /\ pc = "rotation"
  /\ LET r == process_rotation(char_name, src[char_name], out.chars[char_name],
                               [character |-> char_name])
     IN  /\ out' = [out EXCEPT !.chars[char_name] = r.out]
         /\ manifest' = [animations |-> <<>>] @@ r.manifest
         /\ log' = log \o r.log
  /\ pc' = "animations"
  /\ si' = 1
  /\ UNCHANGED <<src, all_manifests, ci, prev, find>>

(* Lines 157-222: one iteration of the loop over anim_map.items(). *)
AnimationState ==
  /\ pc = "animations"
  /\ si <= Len(anim_map)
  /\ LET game_state == anim_map[si][1]
         pixellab_name == anim_map[si][2]
         anim_src == src[char_name].animations[pixellab_name]
         old == out.chars[char_name].animations
         r == ProcessState(char_name, game_state, pixellab_name, anim_src, old)
         writtenTo == {<<game_state, d>> : d \in r.dirs}
     IN  IF SkipState(anim_src)
         THEN UNCHANGED <<out, manifest, log>>
         ELSE /\ out' = [out EXCEPT
                           !.chars[char_name].exists = @ \/ r.dirs # {},
                           !.chars[char_name].animations =
                              [p \in (DOMAIN old) \cup writtenTo |->
                                 IF p \in writtenTo THEN r.files[p[2]]
                                 ELSE old[p]]]
              /\ manifest' = [manifest EXCEPT
                                !.animations = (game_state :> r.info) @@ @]
              /\ log' = log \o StateEvents(char_name, game_state, r.dirs)
  /\ si' = si + 1
  /\ UNCHANGED <<src, all_manifests, pc, ci, prev, find>>

(* Lines 224-229: frame totals per direction, after the loop. *)
FrameTotals ==
  /\ pc = "animations"
  /\ si > Len(anim_map)
  /\ manifest' =
       [frame_totals |->
          [d \in {"south", "west", "north", "east"} |->
             TotalFrames(anim_map, manifest.animations, d, 1)]] @@ manifest
  /\ pc' = "manifest"
  /\ UNCHANGED <<src, out, all_manifests, ci, si, prev, log, find>>

WriteManifest_master_in_loop ==
  /\ pc = "manifest"
  /\ out.chars[char_name].exists
  /\ out' = [out EXCEPT !.chars[char_name].manifest =
                          [written |-> TRUE, body |-> manifest],
                        !.master =
                          [written |-> TRUE,
                           body |-> (char_name :> manifest) @@ all_manifests]]
  /\ all_manifests' = (char_name :> manifest) @@ all_manifests
  /\ manifest' = <<>>
  /\ log' = log \o <<Event("manifest", char_name, "-", "-"),
                     Event("master", "-", "-", "-")>>
  /\ IF ci < Len(CHARACTERS)
     THEN ci' = ci + 1 /\ pc' = "rotation"
     ELSE ci' = ci /\ pc' = "master"
  /\ UNCHANGED <<src, si, prev, find>>

(* Lines 250-254: open(manifest_path, "w") needs OUT_DIR/char_name to exist. *)
WriteManifest ==
  /\ pc = "manifest"
  /\ out.chars[char_name].exists
  /\ out' = [out EXCEPT !.chars[char_name].manifest =
                          [written |-> TRUE, body |-> manifest]]
  /\ all_manifests' = (char_name :> manifest) @@ all_manifests
  /\ manifest' = <<>>
  /\ log' = Append(log, Event("manifest", char_name, "-", "-"))
  /\ IF ci < Len(CHARACTERS)
     THEN ci' = ci + 1 /\ pc' = "rotation"
     ELSE ci' = ci /\ pc' = "master"
  /\ UNCHANGED <<src, si, prev, find>>

(* Line 251 when OUT_DIR/char_name was never created: FileNotFoundError, *)
(* uncaught, ends the run.                                               *)
WriteManifestFails ==
  /\ pc = "manifest"
  /\ ~out.chars[char_name].exists
  /\ pc' = "aborted"
  /\ UNCHANGED <<src, out, manifest, all_manifests, ci, si, prev, log, find>>

(* Lines 265-267 *)
WriteMaster ==
  /\ pc = "master"
  /\ out' = [out EXCEPT !.master = [written |-> TRUE, body |-> all_manifests]]
  /\ log' = Append(log, Event("master", "-", "-", "-"))
  /\ pc' = "done"
  /\ UNCHANGED <<src, manifest, all_manifests, ci, si, prev, find>>

(* The script is started again on the same source tree; prev keeps what *)
(* the run before left behind.                                         *)
RunAgain ==
  /\ pc \in {"done", "aborted"}
  /\ prev' = [ran |-> TRUE, out |-> out, all_manifests |-> all_manifests]
  /\ pc' = "start"
  /\ log' = <<>>
  /\ UNCHANGED <<src, out, manifest, all_manifests, ci, si, find>>

Next ==
  \/ CleanOutput
  \/ ProcessRotation
  \/ AnimationState
  \/ FrameTotals
  \/ WriteManifest
  \/ WriteManifestFails
  \/ WriteMaster
  \/ RunAgain

Spec == Init /\ [][Next]_vars

-----------------------------------------------------------------------------
(* find_source_dir on its own, over every shape of animation folder *)

FindKinds == {"absent", "empty", "txt", "png"}

InitFind ==
  /\ find \in {[base |-> FolderOf(kinds).sub, target |-> t,
                called |-> FALSE, result |-> NotFound] :
                 kinds \in [DirNameSet -> FindKinds],
                 t \in SeqRange(PrimaryDirections)}
  /\ src = [c \in CharNames |-> SmallTree]
  /\ out = NoOutput
  /\ manifest = <<>>
  /\ all_manifests = <<>>
  /\ pc = "idle"
  /\ ci = 1
  /\ si = 1
  /\ prev = NoSnapshot
  /\ log = <<>>

FindSourceDir ==
  /\ ~find.called
  /\ find' = [find EXCEPT !.called = TRUE,
                          !.result = find_source_dir(find.base, find.target)]
  /\ UNCHANGED <<src, out, manifest, all_manifests, pc, ci, si, prev, log>>

NextFind == FindSourceDir

SpecFind == InitFind /\ [][NextFind]_vars

-----------------------------------------------------------------------------
(* Properties *)

Directions == {"south", "west", "north", "east"}

CharIndex(c) == CHOOSE i \in 1..Len(CHARACTERS) : CHARACTERS[i][1] = c

(* The characters whose processing has finished in the current run. *)
Completed == DOMAIN all_manifests

Finished == pc \in {"done", "aborted"}

StatePairs(c) == SeqRange(AnimMapOf(c))

UsableDir(entry) ==
  entry.isdir /\ \E f \in DOMAIN entry.files : f.ext = "png"

ChainHits(base, chain) == {i \in 1..Len(chain) : UsableDir(base[chain[i]])}

Least(S) == CHOOSE i \in S : \A j \in S : i <= j

FixedChain ==
  [south |-> <<"south", "south-west", "west">>,
   west  |-> <<"west", "south-west">>,
   north |-> <<"north", "north-west", "north-east", "west">>]

(* C1: find_source_dir returns the first entry of the target's fixed chain  *)
(* that is a directory holding a PNG, unmirrored; when no chain entry is    *)
(* usable it returns east mirrored only for target west with a usable east, *)
(* and not-found otherwise.  East is never returned for south or north.     *)
C1_FirstUsableChainEntry ==
  find.called =>
    LET chain == FixedChain[find.target]
        hits == ChainHits(find.base, chain)
    IN  /\ hits # {} =>
             find.result = [path |-> chain[Least(hits)], mirror |-> FALSE]
        /\ (hits = {} /\ find.target = "west" /\ UsableDir(find.base["east"])) =>
             find.result = [path |-> "east", mirror |-> TRUE]
        /\ (hits = {} /\ ~(find.target = "west" /\ UsableDir(find.base["east"]))) =>
             find.result = [path |-> "None", mirror |-> FALSE]
        /\ find.target # "west" => find.result.path # "east"

C1_Witness ==
  /\ find.called
  /\ find.target = "north"
  /\ find.result = [path |-> "north-west", mirror |-> FALSE]
  /\ UsableDir(find.base["north-east"])
  /\ UsableDir(find.base["east"])
  /\ find.base["north"].isdir

(* C2: for every state whose source folder exists, east is written from the *)
(* directory west was resolved from, with the opposite mirror flag: the     *)
(* original east frames unmirrored when west was the mirror of east, the    *)
(* mirror of the west source otherwise; without a resolved west there is no *)
(* east directory and no east manifest entry.                               *)
C2_EastFromWestSource ==
  Finished => \A c \in Completed : \A sp \in StatePairs(c) :
    LET folder == src[c].animations[sp[2]]
        w == find_source_dir(folder.sub, "west")
        S == folder.sub[w.path]
        east == <<sp[1], "east">>
        written == out.chars[c].animations
    IN  folder.isdir =>
          IF w.path # "None"
          THEN /\ east \in DOMAIN written
               /\ DOMAIN written[east] = PngFiles(S)
               /\ \A f \in PngFiles(S) :
                    written[east][f] =
                      IF w.mirror THEN S.files[f] ELSE mirror_image(S.files[f])
               /\ "east" \in DOMAIN all_manifests[c].animations[sp[1]].directions
          ELSE /\ east \notin DOMAIN written
               /\ "east" \notin DOMAIN all_manifests[c].animations[sp[1]].directions

C2_Witness ==
  /\ pc = "done"
  /\ \E c \in Completed : \E sp \in StatePairs(c) :
       LET folder == src[c].animations[sp[2]]
       IN  /\ folder.isdir
           /\ ~HasPng(folder.sub["west"])
           /\ ~HasPng(folder.sub["south-west"])
           /\ HasPng(folder.sub["south"])
           /\ HasPng(folder.sub["north"])
           /\ <<sp[1], "east">> \in DOMAIN out.chars[c].animations
           /\ out.chars[c].animations[<<sp[1], "east">>][Png(1)]
                = folder.sub["east"].files[Png(1)]
           /\ out.chars[c].animations[<<sp[1], "west">>][Png(1)]
                # folder.sub["east"].files[Png(1)]

(* C3: after a completed run a direction is listed in a manifest (in        *)
(* rotations.directions, or as a key of animations[state].directions) only  *)
(* if a frame was found for it and written to the output; every animation   *)
(* direction entry has frames >= 1.                                         *)
C3_ListedOnlyIfWritten ==
  pc = "done" =>
    \A c \in CharNames :
      LET m == out.chars[c].manifest.body
      IN  /\ "rotations" \in DOMAIN m =>
               \A d \in SeqRange(m.rotations.directions) :
                 Png(d) \in DOMAIN out.chars[c].rotations.files
          /\ \A gs \in DOMAIN m.animations :
               \A d \in DOMAIN m.animations[gs].directions :
                 /\ m.animations[gs].directions[d].frames >= 1
                 /\ <<gs, d>> \in DOMAIN out.chars[c].animations
                 /\ out.chars[c].animations[<<gs, d>>] # NoFiles

(* C4: a run whose only problems are soft misses always completes: every    *)
(* character's manifest.json is written and the master manifest is written  *)
(* with an entry for every character.                                       *)
C4_SoftMissesComplete ==
  /\ pc # "aborted"
  /\ pc = "done" =>
       /\ out.master.written
       /\ \A c \in CharNames :
            /\ out.chars[c].manifest.written
            /\ c \in DOMAIN out.master.body

RECURSIVE SumFrames(_, _, _)
SumFrames(animations, d, states) ==
  IF states = {} THEN 0
  ELSE LET gs == CHOOSE x \in states : TRUE
       IN  animations[gs].directions[d].frames
           + SumFrames(animations, d, states \ {gs})

LastOf(s) == s[Len(s)]

(* C5: for every character, state and direction in the manifest, 'frames'   *)
(* is the number of PNG files in the destination directory, the destination *)
(* holds exactly the PNG file names of the source directory, and            *)
(* frame_totals[d] is the sum of 'frames' over the states that have d.      *)
C5_FrameCounts ==
  Finished => \A c \in Completed :
    LET m == all_manifests[c]
    IN  /\ \A gs \in DOMAIN m.animations :
             \A d \in DOMAIN m.animations[gs].directions :
               LET entry == m.animations[gs].directions[d]
                   from == IF d = "east"
                           THEN LastOf(m.animations[gs].directions["west"].source)
                           ELSE LastOf(entry.source)
                   source == src[c].animations[m.animations[gs].source].sub[from]
                   dst == out.chars[c].animations[<<gs, d>>]
               IN  /\ entry.frames = Cardinality({f \in DOMAIN dst : f.ext = "png"})
                   /\ DOMAIN dst = {f \in DOMAIN source.files : f.ext = "png"}
        /\ \A d \in Directions :
             m.frame_totals[d] =
               SumFrames(m.animations, d,
                         {gs \in DOMAIN m.animations :
                            d \in DOMAIN m.animations[gs].directions})

C5_Witness ==
  /\ pc = "done"
  /\ \E c \in Completed : \E gs \in DOMAIN all_manifests[c].animations :
       LET dirs == all_manifests[c].animations[gs].directions
       IN  /\ DOMAIN dirs = Directions
           /\ dirs["south"].frames # dirs["north"].frames
           /\ all_manifests[c].frame_totals["east"] > dirs["east"].frames
           /\ all_manifests[c].frame_totals["north"]
                # all_manifests[c].frame_totals["south"]

(* C6: a state is a key of the manifest's animations map exactly when its   *)
(* mapped source folder exists; a missing folder omits only that state.     *)
C6_StateIffFolder ==
  Finished => \A c \in Completed :
    /\ \A sp \in StatePairs(c) :
         sp[1] \in DOMAIN all_manifests[c].animations
           <=> src[c].animations[sp[2]].isdir
    /\ DOMAIN all_manifests[c].animations \subseteq {sp[1] : sp \in StatePairs(c)}

C6_Witness ==
  /\ pc = "done"
  /\ ~src["archer"].animations["fireball"].isdir
  /\ "attack" \notin DOMAIN all_manifests["archer"].animations
  /\ "attack-melee" \in DOMAIN all_manifests["archer"].animations
  /\ "idle" \in DOMAIN all_manifests["archer"].animations
  /\ "attack" \in DOMAIN all_manifests["knight"].animations

ListedTargets(m) ==
  {p \in (DOMAIN m.animations) \X Directions :
     p[2] \in DOMAIN m.animations[p[1]].directions}

(* C7: a second run on the same source leaves the output tree and the       *)
(* manifests exactly as the first run left them, and whatever the output    *)
(* directory held before, a finished run's output holds only what the       *)
(* current run resolved.                                                    *)
C7_RerunIdentical ==
  Finished =>
    /\ prev.ran => (out = prev.out /\ all_manifests = prev.all_manifests)
    /\ out.master = IF pc = "done"
                    THEN [written |-> TRUE, body |-> all_manifests]
                    ELSE NoManifest
    /\ \A c \in CharNames :
         IF c \in Completed
         THEN /\ out.chars[c].manifest =
                   [written |-> TRUE, body |-> all_manifests[c]]
              /\ DOMAIN out.chars[c].animations = ListedTargets(all_manifests[c])
              /\ out.chars[c].rotations.isdir
                   <=> "rotations" \in DOMAIN all_manifests[c]
              /\ DOMAIN out.chars[c].rotations.files
                   \subseteq {Png(d) : d \in Directions}
         ELSE out.chars[c] = EmptyCharOut

C7_Witness ==
  /\ pc = "done"
  /\ prev.ran
  /\ prev.out.master.written
  /\ out = prev.out
  /\ \E c \in CharNames : out.chars[c].animations # <<>>
  /\ \E c \in CharNames : ~out.chars[c].rotations.isdir

(* The characters whose rotation step has run when the run ends. *)
RotationDone(c) == Finished /\ CharIndex(c) <= ci

ManifestOf(c) == IF c \in Completed THEN all_manifests[c] ELSE manifest

(* C8: process_rotation copies, for each of south, west and north, d.png    *)
(* when it exists and otherwise the first existing name of d's fallback     *)
(* list, and writes no d.png when there is no candidate; the source is      *)
(* extracted/rotations when it exists, else rotations under the character   *)
(* root; when neither exists nothing is written and the manifest has no     *)
(* rotations entry.                                                         *)
C8_RotationCopies ==
  \A c \in CharNames :
    RotationDone(c) =>
      LET primary == src[c].extracted_rotations
          from == IF primary.isdir THEN primary ELSE src[c].rotations
          dst == out.chars[c].rotations
      IN  IF ~from.isdir
          THEN /\ dst = NoEntry
               /\ "rotations" \notin DOMAIN ManifestOf(c)
          ELSE /\ dst.isdir
               /\ "rotations" \in DOMAIN ManifestOf(c)
               /\ \A d \in {"south", "west", "north"} :
                    LET chain == FixedChain[d]
                        hits == {i \in 1..Len(chain) :
                                   Png(chain[i]) \in DOMAIN from.files}
                    IN  IF Png(d) \in DOMAIN from.files
                        THEN /\ Png(d) \in DOMAIN dst.files
                             /\ dst.files[Png(d)] = from.files[Png(d)]
                        ELSE IF hits # {}
                        THEN /\ Png(d) \in DOMAIN dst.files
                             /\ dst.files[Png(d)]
                                  = from.files[Png(chain[Least(hits)])]
                        ELSE Png(d) \notin DOMAIN dst.files

C8_Witness ==
  \E c \in CharNames :
    /\ RotationDone(c)
    /\ ~src[c].extracted_rotations.isdir
    /\ src[c].rotations.isdir
    /\ DOMAIN src[c].rotations.files = {Png("north-east"), Png("west"), Png("east")}
    /\ out.chars[c].rotations.files[Png("north")]
         = src[c].rotations.files[Png("north-east")]
    /\ out.chars[c].rotations.files[Png("south")]
         = src[c].rotations.files[Png("west")]

StateIndex(c, gs) ==
  CHOOSE i \in 1..Len(AnimMapOf(c)) : AnimMapOf(c)[i][1] = gs

KindRank(e) ==
  CASE e.kind = "rotation" -> 1
    [] e.kind = "frames"   -> 2
    [] e.kind = "manifest" -> 3

DirRank(d) ==
  CASE d = "south" -> 1 [] d = "west" -> 2 [] d = "north" -> 3 [] d = "east" -> 4
    [] OTHER -> 0

CharEvent(e) == e.kind \in {"rotation", "frames", "manifest"}

(* The position of a write in the fixed order: character, then rotations *)
(* before animations before the manifest, then state, then direction.    *)
Position(e) ==
  <<CharIndex(e.char), KindRank(e),
    IF e.kind = "frames" THEN StateIndex(e.char, e.state) ELSE 0,
    DirRank(e.dir)>>

RECURSIVE LexLess(_, _, _)
LexLess(a, b, i) ==
  /\ i <= Len(a)
  /\ \/ a[i] < b[i]
     \/ a[i] = b[i] /\ LexLess(a, b, i + 1)

(* C9: the writes of a run happen in a fixed order: the output tree is      *)
(* recreated before any file is written; characters go in configured order; *)
(* within a character rotations come before animations, and within a state  *)
(* the directions go south, west, north, east; a character's manifest comes *)
(* after all of its output and before the next character; the master        *)
(* manifest is written once, after every character's manifest.              *)
C9_WriteOrder ==
  LET n == Len(log)
  IN  /\ pc # "start" => n >= 1
      /\ \A i \in 1..n :
           /\ log[i].kind = "clean" <=> i = 1
           /\ log[i].kind = "master" =>
                /\ i = n
                /\ \A c \in CharNames :
                     \E j \in 1..(i - 1) : log[j] = Event("manifest", c, "-", "-")
           /\ (i < n /\ CharEvent(log[i]) /\ CharEvent(log[i + 1])) =>
                LexLess(Position(log[i]), Position(log[i + 1]), 1)
      /\ pc = "done" => log[n].kind = "master"

C9_Witness ==
  /\ pc = "done"
  /\ \E i, j, k \in 1..Len(log) :
       /\ i < j /\ j < k
       /\ log[i] = Event("rotation", "armored-warrior", "-", "east")
       /\ log[j] = Event("frames", "archer", "attack-melee", "east")
       /\ log[k] = Event("manifest", "knight", "-", "-")

HorizontalFlip(img) == [i \in 1..Len(img) |-> img[Len(img) - i + 1]]

(* C10: in every output location east exists exactly when west exists, east *)
(* and west hold the same file names, and every east image is the           *)
(* horizontal mirror of the west image of the same name.                    *)
C10_EastMirrorsWest ==
  Finished => \A c \in Completed :
    LET rot == out.chars[c].rotations.files
        anim == out.chars[c].animations
    IN  /\ Png("east") \in DOMAIN rot <=> Png("west") \in DOMAIN rot
        /\ Png("east") \in DOMAIN rot =>
             rot[Png("east")] = HorizontalFlip(rot[Png("west")])
        /\ \A sp \in StatePairs(c) :
             LET east == <<sp[1], "east">>
                 west == <<sp[1], "west">>
             IN  /\ east \in DOMAIN anim <=> west \in DOMAIN anim
                 /\ east \in DOMAIN anim =>
                      /\ DOMAIN anim[east] = DOMAIN anim[west]
                      /\ \A f \in DOMAIN anim[east] :
                           anim[east][f] = HorizontalFlip(anim[west][f])

C10_Witness ==
  /\ pc = "done"
  /\ \E c \in CharNames :
       /\ Png("west") \notin DOMAIN RotationDir(src[c]).files
       /\ Png("east") \in DOMAIN out.chars[c].rotations.files
       /\ out.chars[c].rotations.files[Png("east")]
            # out.chars[c].rotations.files[Png("west")]
  /\ \E c \in CharNames : \E gs \in DOMAIN all_manifests[c].animations :
       /\ "west" \in DOMAIN all_manifests[c].animations[gs].directions
       /\ all_manifests[c].animations[gs].directions["west"].source
            = <<"mirror", "east">>
       /\ out.chars[c].animations[<<gs, "east">>][Png(1)]
            # out.chars[c].animations[<<gs, "west">>][Png(1)]

====
